---------------------------- MODULE Spec2Model ----------------------------
(***************************************************************************)
(* Model of the upload controller of github-roadmap-api:                   *)
(*   extractTasksFromText  - the line heuristic that turns document text   *)
(*                           into a de-duplicated list of task strings;    *)
(*   createGitHubIssues    - the sequential fan-out that creates one issue *)
(*                           per task through the Octokit client.          *)
(*                                                                         *)
(* A JavaScript string is a sequence of characters (UTF-16 code units);    *)
(* a character is a one-character TLA+ string, except the bullet glyph     *)
(* U+2022, which is written "U+2022".                                      *)
(***************************************************************************)
EXTENDS Integers, Sequences, FiniteSets, TLC

VARIABLES
    \* extractTasksFromText(text)
    text,           \* the argument, a JavaScript value
    lines,          \* const lines  (trimmed, non-blank lines of text)
    lineIdx,        \* number of lines the for-of loop has consumed
    tasks,          \* const tasks  (the list the loop pushes to)
    xpc,            \* position: "idle", "start", "loop", "returned", "threw"
    xresult,        \* the returned list
    \* createGitHubIssues(octokit, owner, repo, tasks, options)
    taskList,       \* the tasks argument
    options,        \* the options argument
    taskIdx,        \* number of tasks whose loop iteration has completed
    fpc,            \* position: "idle", "loop", "awaiting", "returned", "rejected"
    createdIssues,  \* const createdIssues
    issueParams,    \* issueParams of the iteration in progress
    \* the Octokit client (octokit.issues.create)
    clientCalls,    \* every issueParams the client has received, in order
    clientPending,  \* indices into clientCalls of calls not yet settled
    clientReplies,  \* how each call settled, by call index
    clientIssueNo,  \* number the repository gives the next issue
    clientHung,     \* indices of calls the client will never settle
    \* uploadFile(req, res)
    req,            \* the request: file, document, credential, body fields
    world,          \* what the request meets: is the repository reachable
    upc,            \* position: "idle", "start", "parsing", "creating",
                    \*   "cleaned", "caught", "caughtCleaned", "responded"
    res,            \* the response sent, NoResponse before
    unlinks,        \* number of fs.unlink attempts on the uploaded file
    caught,         \* message of the error the catch clause holds
    \* GitHubService.createIssue(params) and the GraphQL endpoint
    sargs,          \* the parameters: labels, assignees, body
    github,         \* the server: does the repository exist, its labels, the users
    spc,            \* position: "idle", "start", "repoId", "labelIds",
                    \*   "assigneeIds", "mutation", "resolved", "rejected"
    gqlSent,        \* the requests given to client.request, in order
    gqlPending,     \* indices of the requests not yet answered
    gqlReplies,     \* the answers, by request index
    repoId,         \* const repoId
    labelIds,       \* let labelIds
    userSlots,      \* Promise.all: the result slot of each getUserId
    allError,       \* Promise.all: the first rejection, NoError0 before
    settleOrder,    \* the slots in the order their lookups completed
    assigneeIds,    \* let assigneeIds
    sresult,        \* what createIssue resolved or rejected with
    serverIssues    \* the issues the server has created

xvars == <<text, lines, lineIdx, tasks, xpc, xresult>>
fvars == <<taskList, options, taskIdx, fpc, createdIssues, issueParams>>
cvars == <<clientCalls, clientPending, clientReplies, clientIssueNo, clientHung>>
uvars == <<req, world, upc, res, unlinks, caught>>
svars == <<sargs, github, spc, gqlSent, gqlPending, gqlReplies, repoId,
           labelIds, userSlots, allError, settleOrder, assigneeIds, sresult,
           serverIssues>>
vars  == <<xvars, fvars, cvars, uvars, svars>>

-----------------------------------------------------------------------------
(* Bounds of the model *)

MaxChars == 4       \* longest text enumerated character by character
MaxLines == 3       \* most corpus lines joined into one text
MaxTasks == 3       \* longest task list handed to the fan-out

-----------------------------------------------------------------------------
(* Characters *)

Bullet == "U+2022"
Digits == {"0", "1", "2", "3", "4", "5", "6", "7", "8", "9"}
\* LineTerminator of ECMAScript: what the regular expression "." refuses
LineTerminators == {"\n", "\r"}
\* WhiteSpace + LineTerminator: what \s matches and what trim() strips
StrWhiteSpace == {" ", "\t"} \cup LineTerminators
\* faulty variant: the hyphen left out of the bullet glyphs
BulletGlyphsNoHyphen == {Bullet, "*"}
\* the character class [\u2022\-*]
BulletGlyphs == {Bullet, "-", "*"}

Max(S) == CHOOSE m \in S : \A n \in S : n <= m
Min(S) == CHOOSE m \in S : \A n \in S : m <= n

\* number of leading characters of s that belong to C
LeadRun(s, C) == Max({k \in 0..Len(s) : \A m \in 1..k : s[m] \in C})
\* number of trailing characters of s that belong to C
TrailRun(s, C) ==
    Max({k \in 0..Len(s) : \A m \in (Len(s) - k + 1)..Len(s) : s[m] \in C})

\* s.substring(from) with a 0-based from
Tail0(s, from) == SubSeq(s, from + 1, Len(s))

\* faulty variant: nothing is trimmed
TrimNone(s) == s

\* String.prototype.trim
Trim(s) ==
    LET a == LeadRun(s, StrWhiteSpace)
        b == TrailRun(s, StrWhiteSpace)
    IN  IF a = Len(s) THEN <<>> ELSE SubSeq(s, a + 1, Len(s) - b)

\* s.split('\n')
Split(s) ==
    LET nl == {j \in 1..Len(s) : s[j] = "\n"}
        n == Cardinality(nl)
        \* position of the k-th separator; 0 and Len(s) + 1 fence the ends
        Sep(k) == IF k = 0 THEN 0
                  ELSE IF k = n + 1 THEN Len(s) + 1
                  ELSE CHOOSE j \in nl : Cardinality({m \in nl : m < j}) = k - 1
    IN  [k \in 1..(n + 1) |-> SubSeq(s, Sep(k - 1) + 1, Sep(k) - 1)]

\* s.endsWith(c)
EndsWith(s, c) == Len(s) > 0 /\ s[Len(s)] = c

\* faulty variant: the index of the last occurrence
LastIndexOf(self, x) ==
    IF \E i \in 1..Len(self) : self[i] = x
    THEN Max({i \in 1..Len(self) : self[i] = x}) - 1
    ELSE -1

\* self.indexOf(x), 0-based, -1 when absent
IndexOf(self, x) ==
    IF \E i \in 1..Len(self) : self[i] = x
    THEN Min({i \in 1..Len(self) : self[i] = x}) - 1
    ELSE -1

-----------------------------------------------------------------------------
(* The three regular expressions.  A match result is <<>> for null and     *)
(* <<group1>> for a match.                                                 *)

NoMatch == <<>>

\* the tail  \s{minWs,}(.+)$  of all three expressions, matched against
\* rest: \s is greedy and gives characters back until (.+)$ can match,
\* and "." matches anything but a line terminator
TailMatch(rest, minWs) ==
    LET w == LeadRun(rest, StrWhiteSpace)
        ok == {j \in minWs..w :
                 /\ j < Len(rest)
                 /\ \A m \in (j + 1)..Len(rest) : rest[m] \notin LineTerminators}
    IN  IF ok = {} THEN NoMatch ELSE <<Tail0(rest, Max(ok))>>

\* line.match(/^\d+\.\s+(.+)$/)
NumberedMatch(line) ==
    LET d == LeadRun(line, Digits)
    IN  IF d >= 1 /\ Len(line) > d /\ line[d + 1] = "."
        THEN TailMatch(Tail0(line, d + 1), 1)
        ELSE NoMatch

\* line.match(/^[•\-*]\s+(.+)$/)
BulletMatch(line) ==
    IF Len(line) >= 1 /\ line[1] \in BulletGlyphs
    THEN TailMatch(Tail0(line, 1), 1)
    ELSE NoMatch

\* line.match(/^-\s*(.+)$/)
DashMatch(line) ==
    IF Len(line) >= 1 /\ line[1] = "-"
    THEN TailMatch(Tail0(line, 1), 0)
    ELSE NoMatch

\* line.length > 3 && !line.endsWith(':')
MinPlainLen == 3
\* faulty variant: >= in place of >
IsPlainTaskGe(line) == Len(line) >= MinPlainLen /\ ~EndsWith(line, ":")
IsPlainTask(line) == Len(line) > MinPlainLen /\ ~EndsWith(line, ":")

-----------------------------------------------------------------------------
(* extractTasksFromText *)

\* JavaScript values handed in as text
JsString(s) == [type |-> "string", str |-> s, truthy |-> Len(s) > 0]
JsOther(t, b) == [type |-> t, str |-> <<>>, truthy |-> b]
NonStrings ==
    { JsOther("null", FALSE), JsOther("undefined", FALSE),
      JsOther("number", FALSE), JsOther("number", TRUE),
      JsOther("boolean", FALSE), JsOther("boolean", TRUE),
      JsOther("object", TRUE) }

\* faulty variant: the typeof test left out
IsNotTextFalsyOnly(v) == ~v.truthy

\* !text || typeof text !== 'string'
IsNotText(v) == ~v.truthy \/ v.type # "string"

\* ls.filter(line => line): the empty string is falsy
RECURSIVE NonBlank(_)
NonBlank(ls) ==
    IF Len(ls) = 0 THEN <<>>
    ELSE (IF Len(ls[1]) > 0 THEN <<ls[1]>> ELSE <<>>) \o NonBlank(Tail(ls))

\* text.split('\n').map(line => line.trim()).filter(line => line)
SplitLines(s) ==
    LET raw == Split(s)
    IN  NonBlank([i \in 1..Len(raw) |-> Trim(raw[i])])

\* tasks.filter((task, index, self) =>
\*     task.length > 0 && self.indexOf(task) === index)
RECURSIVE DedupFrom(_, _)
DedupFrom(self, index) ==
    IF index >= Len(self) THEN <<>>
    ELSE LET task == self[index + 1]
             keep == Len(task) > 0 /\ IndexOf(self, task) = index
         IN  (IF keep THEN <<task>> ELSE <<>>) \o DedupFrom(self, index + 1)

DedupFilter(self) == DedupFrom(self, 0)


\* The lines of the example of the extraction contract, and the lines the
\* corpus texts are assembled from: lines around each rule's boundary
LnBuyMilk == <<"1", ".", " ", "B", "u", "y", " ", "m", "i", "l", "k">>
LnCallBob == <<"-", " ", "C", "a", "l", "l", " ", "B", "o", "b">>
LnSummary == <<"S", "u", "m", "m", "a", "r", "y", ":">>
LnShort == <<"S", "h", "o", "r", "t">>
LnNumFoo == <<"1", ".", " ", "F", "o", "o">>
LnDashFoo == <<"-", " ", "F", "o", "o">>
LnTightFoo == <<"-", "F", "o", "o">>
LnStarLower == <<"*", " ", "f", "o", "o">>
LnBulletFoo == <<Bullet, " ", "F", "o", "o">>
LnFoo == <<"F", "o", "o">>
LnFooColon == <<"F", "o", "o", ":">>
LnTabFoo == <<"1", "2", ".", "\t", "F", "o", "o", " ">>
LnPadDash == <<" ", " ", "-", " ", "F", "o", "o", " ", " ">>
LnTightTodo == <<"-", "t", "o", "d", "o", ":">>
LnTightAb == <<"-", "a", "b">>
LnNumA == <<"1", ".", " ", "a">>
LnDashSetup == <<"-", " ", "S", "e", "t", "u", "p", ":">>
LnNoGap == <<"1", ".", "F", "o", "o">>
LnCrInside == <<"-", " ", "a", "\r", "b">>
CorpusLines ==
    { LnNumFoo, LnDashFoo, LnTightFoo, LnStarLower, LnBulletFoo,
      LnFoo, LnFooColon, LnTabFoo, LnPadDash, LnTightTodo,
      LnTightAb, LnNumA, LnDashSetup, LnNoGap, LnCrInside }

\* lines.join('\n')
RECURSIVE Join(_)
Join(ls) ==
    IF Len(ls) = 0 THEN <<>>
    ELSE IF Len(ls) = 1 THEN ls[1]
    ELSE ls[1] \o <<"\n">> \o Join(Tail(ls))

\* "1. Buy milk\n- Call Bob\nSummary:\nShort"
ExampleText == Join(<<LnBuyMilk, LnCallBob, LnSummary, LnShort>>)

Alphabet == {"1", ".", " ", "-", "*", ":", "a", "\n", "\r"}
CharTexts == UNION {[1..n -> Alphabet] : n \in 0..MaxChars}
CorpusTexts == {Join(ls) : ls \in UNION {[1..n -> CorpusLines] : n \in 1..MaxLines}}
InputTexts == CharTexts \cup CorpusTexts \cup {ExampleText}
InputValues == {JsString(s) : s \in InputTexts} \cup NonStrings

\* the variables of extractTasksFromText before it is called
ExtractIdle ==
    /\ lines = <<>>
    /\ lineIdx = 0
    /\ tasks = <<>>
    /\ xresult = <<>>

\* lines 13-15: the guard returns [] for anything that is not a non-empty string
ExtractGuard ==
    /\ xpc = "start"
    /\ IsNotText(text)
    /\ xresult' = <<>>
    /\ xpc' = "returned"
    /\ UNCHANGED <<text, lines, lineIdx, tasks>>

\* lines 17-18: text.split is a TypeError on a value that has no split method
ExtractSplit ==
    /\ xpc = "start"
    /\ ~IsNotText(text)
    /\ IF text.type = "string"
       THEN /\ lines' = SplitLines(text.str)
            /\ xpc' = "loop"
       ELSE /\ lines' = lines
            /\ xpc' = "threw"
    /\ UNCHANGED <<text, lineIdx, tasks, xresult>>

\* the line the for-of loop is at
CurLine == lines[lineIdx + 1]
InLoop == xpc = "loop" /\ lineIdx < Len(lines)

\* tasks.push(t); continue
PushTask(t) ==
    /\ tasks' = Append(tasks, t)
    /\ lineIdx' = lineIdx + 1
    /\ UNCHANGED <<text, lines, xpc, xresult>>

\* faulty variant: the content of a numbered line goes through the filters
\* of plain lines
ExtractNumberedFiltered ==
    /\ InLoop
    /\ NumberedMatch(CurLine) # NoMatch
    /\ IF IsPlainTask(Trim(NumberedMatch(CurLine)[1]))
       THEN PushTask(Trim(NumberedMatch(CurLine)[1]))
       ELSE /\ lineIdx' = lineIdx + 1
            /\ UNCHANGED <<text, lines, tasks, xpc, xresult>>

\* lines 22-26
ExtractNumbered ==
    /\ InLoop
    /\ NumberedMatch(CurLine) # NoMatch
    /\ PushTask(Trim(NumberedMatch(CurLine)[1]))

\* lines 29-33
ExtractBullet ==
    /\ InLoop
    /\ NumberedMatch(CurLine) = NoMatch
    /\ BulletMatch(CurLine) # NoMatch
    /\ PushTask(Trim(BulletMatch(CurLine)[1]))

\* lines 36-40
ExtractDash ==
    /\ InLoop
    /\ NumberedMatch(CurLine) = NoMatch
    /\ BulletMatch(CurLine) = NoMatch
    /\ DashMatch(CurLine) # NoMatch
    /\ PushTask(Trim(DashMatch(CurLine)[1]))

NoMarker(line) ==
    /\ NumberedMatch(line) = NoMatch
    /\ BulletMatch(line) = NoMatch
    /\ DashMatch(line) = NoMatch

\* lines 43-45, the condition true
ExtractPlain ==
    /\ InLoop
    /\ NoMarker(CurLine)
    /\ IsPlainTask(CurLine)
    /\ PushTask(CurLine)

\* lines 43-45, the condition false: the line yields nothing
ExtractSkip ==
    /\ InLoop
    /\ NoMarker(CurLine)
    /\ ~IsPlainTask(CurLine)
    /\ lineIdx' = lineIdx + 1
    /\ UNCHANGED <<text, lines, tasks, xpc, xresult>>

\* lines 48-50
ExtractReturn ==
    /\ xpc = "loop"
    /\ lineIdx = Len(lines)
    /\ xresult' = DedupFilter(tasks)
    /\ xpc' = "returned"
    /\ UNCHANGED <<text, lines, lineIdx, tasks>>

-----------------------------------------------------------------------------
(* createGitHubIssues *)

\* the literal 100 of task.substring(0, 100) and of task.length > 100
TitleLimit == 100
BodyThreshold == 100

\* s.substring(from, to) with 0-based from <= to
Substring(s, from, to) ==
    SubSeq(s, from + 1, IF to > Len(s) THEN Len(s) ELSE to)

\* faulty variant: a limit that is one character too long
IssueTitleOffByOne(task) == Substring(task, 0, TitleLimit + 1)

\* task.substring(0, 100)
IssueTitle(task) == Substring(task, 0, TitleLimit)

\* faulty variant: >= in place of >
IssueBodyGe(task) ==
    IF Len(task) >= 100 THEN task ELSE <<"T", "a", "s", "k", ":", " ">> \o task

\* task.length > 100 ? task : `Task: ${task}`
TaskPrefix == <<"T", "a", "s", "k", ":", " ">>
IssueBody(task) ==
    IF Len(task) > BodyThreshold THEN task ELSE TaskPrefix \o task

\* JavaScript values of options.labels and options.assignee
Undefined == [type |-> "undefined", val |-> <<>>]
JsNull == [type |-> "null", val |-> <<>>]
JsArray(a) == [type |-> "array", val |-> a]
JsText(t) == [type |-> "string", val |-> t]
LabelValues ==
    { Undefined, JsArray(<<>>), JsArray(<<"bug", "roadmap">>), JsText("bug") }
AssigneeValues == { Undefined, JsText(""), JsText("octocat") }
OptionValues == [labels : LabelValues, assignee : AssigneeValues]

\* const { labels = [], assignee = null } = options
LabelsOf(o) == IF o.labels = Undefined THEN JsArray(<<>>) ELSE o.labels
AssigneeOf(o) == IF o.assignee = Undefined THEN JsNull ELSE o.assignee

\* Array.isArray(labels) ? labels : []
ParamLabels(o) ==
    IF LabelsOf(o).type = "array" THEN LabelsOf(o).val ELSE <<>>

\* faulty variant: the assignee is never attached
HasAssigneeNever(o) == FALSE

\* if (assignee): null and the empty string are falsy
HasAssignee(o) == AssigneeOf(o).type = "string" /\ AssigneeOf(o).val # ""

RepoOwner == "acme"
RepoName == "roadmap"

\* lines 97-107
BuildIssueParams(task, o) ==
    LET base == [ owner  |-> RepoOwner,
                  repo   |-> RepoName,
                  title  |-> IssueTitle(task),
                  body   |-> IssueBody(task),
                  labels |-> ParamLabels(o) ]
    IN  IF HasAssignee(o)
        THEN base @@ [assignees |-> <<AssigneeOf(o).val>>]
        ELSE base

\* faulty variant: the url is taken from the wrong field of the response
SuccessRecordMixed(response) ==
    [ number |-> response.data.number,
      title  |-> response.data.title,
      url    |-> response.data.title ]

\* lines 110-114: what is pushed after the create call resolved
SuccessRecord(response) ==
    [ number |-> response.data.number,
      title  |-> response.data.title,
      url    |-> response.data.html_url ]

FailureRecordWrapped(task, error) ==
    [task |-> task, error |-> "Failed to create issue", number |-> 0]

\* lines 119-122: what is pushed after it rejected
FailureRecord(task, error) ==
    [ task |-> task, error |-> error.message ]

\* the tasks handed to the fan-out: a short one and tasks around the limit
MkTask(n) ==
    [i \in 1..n |-> <<"a", "b", "c", "d", "e", "f", "g">>[(i % 7) + 1]]
ShortTask == <<"S", "h", "o", "r", "t">>
TaskPool == { ShortTask, MkTask(TitleLimit), MkTask(TitleLimit + 1) }
TaskLists == UNION {[1..n -> TaskPool] : n \in 0..MaxTasks}

\* the variables of createGitHubIssues and of the client before the call
FanIdle ==
    /\ taskIdx = 0
    /\ createdIssues = <<>>
    /\ issueParams = <<>>
    /\ clientCalls = <<>>
    /\ clientPending = {}
    /\ clientReplies = <<>>
    /\ clientIssueNo = 1
    /\ clientHung = {}

CurTask == taskList[taskIdx + 1]
\* the call the loop is waiting for
CurCall == Len(clientCalls)

\* faulty variant: the create call is started but not awaited
FanCreateNoAwait ==
    /\ fpc = "loop"
    /\ taskIdx < Len(taskList)
    /\ issueParams' = BuildIssueParams(CurTask, options)
    /\ clientCalls' = Append(clientCalls, issueParams')
    /\ clientPending' = clientPending \cup {Len(clientCalls) + 1}
    /\ taskIdx' = taskIdx + 1
    /\ UNCHANGED <<taskList, options, fpc, createdIssues>>
    /\ UNCHANGED <<clientReplies, clientIssueNo, clientHung>>

\* lines 95-109: the next iteration builds issueParams and starts
\* octokit.issues.create(issueParams), then waits
FanCreate ==
    /\ fpc = "loop"
    /\ taskIdx < Len(taskList)
    /\ issueParams' = BuildIssueParams(CurTask, options)
    /\ clientCalls' = Append(clientCalls, issueParams')
    /\ clientPending' = clientPending \cup {Len(clientCalls) + 1}
    /\ fpc' = "awaiting"
    /\ UNCHANGED <<taskList, options, taskIdx, createdIssues>>
    /\ UNCHANGED <<clientReplies, clientIssueNo, clientHung>>

\* messages of the errors the client rejects with; an Error may have an
\* empty message
ErrorMessages == {"Not Found", ""}

\* the client creates the issue and resolves the call
ClientResolve(c) ==
    /\ c \in clientPending
    /\ clientReplies' =
         (c :> [ ok   |-> TRUE,
                 data |-> [ number   |-> clientIssueNo,
                            title    |-> clientCalls[c].title,
                            html_url |-> <<RepoOwner, RepoName, clientIssueNo>> ] ])
         @@ clientReplies
    /\ clientIssueNo' = clientIssueNo + 1
    /\ clientPending' = clientPending \ {c}
    /\ UNCHANGED <<clientCalls, clientHung>>
    /\ UNCHANGED fvars

\* the client rejects the call with an Error
ClientReject(c, m) ==
    /\ c \in clientPending
    /\ clientReplies' = (c :> [ok |-> FALSE, message |-> m]) @@ clientReplies
    /\ clientPending' = clientPending \ {c}
    /\ UNCHANGED <<clientCalls, clientIssueNo, clientHung>>
    /\ UNCHANGED fvars

Settled(c) == c \in DOMAIN clientReplies

\* lines 109-116: the await resumes with the response
FanOnResolved ==
    /\ fpc = "awaiting"
    /\ Settled(CurCall)
    /\ clientReplies[CurCall].ok
    /\ createdIssues' = Append(createdIssues, SuccessRecord(clientReplies[CurCall]))
    /\ taskIdx' = taskIdx + 1
    /\ fpc' = "loop"
    /\ UNCHANGED <<taskList, options, issueParams>>
    /\ UNCHANGED cvars

\* faulty variant: no catch clause, the rejection leaves the function
FanOnRejectedRethrow ==
    /\ fpc = "awaiting"
    /\ Settled(CurCall)
    /\ ~clientReplies[CurCall].ok
    /\ fpc' = "rejected"
    /\ UNCHANGED <<taskList, options, taskIdx, createdIssues, issueParams>>
    /\ UNCHANGED cvars

\* faulty variant: the catch clause records nothing
FanOnRejectedDrop ==
    /\ fpc = "awaiting"
    /\ Settled(CurCall)
    /\ ~clientReplies[CurCall].ok
    /\ taskIdx' = taskIdx + 1
    /\ fpc' = "loop"
    /\ UNCHANGED <<taskList, options, createdIssues, issueParams>>
    /\ UNCHANGED cvars

\* faulty variant: the catch clause tries the same task again
FanOnRejectedRetry ==
    /\ fpc = "awaiting"
    /\ Settled(CurCall)
    /\ ~clientReplies[CurCall].ok
    /\ fpc' = "loop"
    /\ UNCHANGED <<taskList, options, taskIdx, createdIssues, issueParams>>
    /\ UNCHANGED cvars

\* lines 117-123: the await throws the rejection into the catch clause,
\* which records it and lets the loop go on
\* faulty variant: a call that never settles is given up as a failure
FanOnRejectedTimeout ==
    /\ fpc = "awaiting"
    /\ \/ Settled(CurCall) /\ ~clientReplies[CurCall].ok
       \/ CurCall \in clientHung
    /\ createdIssues' =
         Append(createdIssues,
                FailureRecord(CurTask,
                              IF Settled(CurCall) THEN clientReplies[CurCall]
                              ELSE [ok |-> FALSE, message |-> "timeout"]))
    /\ taskIdx' = taskIdx + 1
    /\ fpc' = "loop"
    /\ UNCHANGED <<taskList, options, issueParams>>
    /\ UNCHANGED cvars

FanOnRejected ==
    /\ fpc = "awaiting"
    /\ Settled(CurCall)
    /\ ~clientReplies[CurCall].ok
    /\ createdIssues' =
         Append(createdIssues, FailureRecord(CurTask, clientReplies[CurCall]))
    /\ taskIdx' = taskIdx + 1
    /\ fpc' = "loop"
    /\ UNCHANGED <<taskList, options, issueParams>>
    /\ UNCHANGED cvars

\* the client never settles the call: the promise stays pending for ever
ClientHang(c) ==
    /\ c \in clientPending
    /\ clientPending' = clientPending \ {c}
    /\ clientHung' = clientHung \cup {c}
    /\ UNCHANGED <<clientCalls, clientReplies, clientIssueNo>>
    /\ UNCHANGED fvars

\* line 126
FanReturn ==
    /\ fpc = "loop"
    /\ taskIdx = Len(taskList)
    /\ fpc' = "returned"
    /\ UNCHANGED <<taskList, options, taskIdx, createdIssues, issueParams>>
    /\ UNCHANGED cvars

-----------------------------------------------------------------------------
(* uploadFile *)

NoResponse == [status |-> 0]
NoRequest == [hasFile |-> FALSE]

\* the variables of uploadFile when no request is being served
UploadIdle ==
    /\ req = NoRequest
    /\ world = [repoReachable |-> TRUE]
    /\ upc = "idle"
    /\ res = NoResponse
    /\ unlinks = 0
    /\ caught = ""

\* the documents uploaded: one that cannot be read or converted, and
\* readable ones by the raw text mammoth yields for them (result.value)
DocUnreadable == [readable |-> FALSE, value |-> JsOther("undefined", FALSE)]
DocOf(v) == [readable |-> TRUE, value |-> v]
DocTight == Join(<<LnTightFoo, LnFooColon>>)
Documents ==
    { DocUnreadable,
      DocOf(JsOther("undefined", FALSE)),
      DocOf(JsString(<<>>)),
      DocOf(JsString(LnSummary)),
      DocOf(JsString(DocTight)),
      DocOf(JsString(ExampleText)) }

\* the requests: req.file and its mimetype, the document behind
\* req.file.path, the credential (header or environment), and the fields
\* of req.body
Requests ==
    [ hasFile  : BOOLEAN,
      mimeOk   : BOOLEAN,
      doc      : Documents,
      hasToken : BOOLEAN,
      hasRepo  : BOOLEAN,
      labels   : LabelValues,
      assignee : AssigneeValues ]

\* an unreachable repository is one on which the client creates nothing
Worlds == [repoReachable : BOOLEAN]

\* res.status(status).json({success: false, error})
ErrorResponse(status, error) ==
    [status |-> status, success |-> FALSE, error |-> error]

\* return res.status(...).json(...) on a validation failure
Refuse(status, error) ==
    /\ res' = ErrorResponse(status, error)
    /\ upc' = "responded"
    /\ UNCHANGED <<req, world, unlinks, caught>>
    /\ UNCHANGED <<xvars, fvars, cvars, svars>>

\* lines 139-144
UploadNoFile ==
    /\ upc = "start"
    /\ ~req.hasFile
    /\ Refuse(400, "No file uploaded")

\* lines 147-157
UploadBadType ==
    /\ upc = "start"
    /\ req.hasFile
    /\ ~req.mimeOk
    /\ Refuse(400, "Invalid file type. Please upload a Word document (.docx or .doc)")

\* result.value || ''
OrEmpty(v) == IF v.truthy THEN v ELSE JsString(<<>>)

\* lines 160-161 and 59-71: parseWordDocument reads and converts the file
\* and calls extractTasksFromText on the text
UploadParse ==
    /\ upc = "start"
    /\ req.hasFile
    /\ req.mimeOk
    /\ req.doc.readable
    /\ text' = OrEmpty(req.doc.value)
    /\ xpc' = "start"
    /\ upc' = "parsing"
    /\ UNCHANGED <<lines, lineIdx, tasks, xresult>>
    /\ UNCHANGED <<req, world, res, unlinks, caught>>
    /\ UNCHANGED <<fvars, cvars, svars>>

\* faulty variant: a failed conversion is taken for an empty document
UploadParseThrowsSwallowed ==
    /\ upc = "start"
    /\ req.hasFile
    /\ req.mimeOk
    /\ ~req.doc.readable
    /\ text' = JsString(<<>>)
    /\ xpc' = "start"
    /\ upc' = "parsing"
    /\ UNCHANGED <<lines, lineIdx, tasks, xresult>>
    /\ UNCHANGED <<req, world, res, unlinks, caught>>
    /\ UNCHANGED <<fvars, cvars, svars>>

ParseFailure == "Failed to parse Word document: ENOENT"

\* lines 60-64 and 77-79: readFile or mammoth fails, parseWordDocument
\* throws, and uploadFile's catch clause takes the error
UploadParseThrows ==
    /\ upc = "start"
    /\ req.hasFile
    /\ req.mimeOk
    /\ ~req.doc.readable
    /\ caught' = ParseFailure
    /\ upc' = "caught"
    /\ UNCHANGED <<req, world, res, unlinks>>
    /\ UNCHANGED <<xvars, fvars, cvars, svars>>

\* parseWordDocument has returned {text, tasks}
Parsed == upc = "parsing" /\ xpc = "returned"

\* faulty variant: an empty task list goes on to createGitHubIssues
UploadNoTasksProceeds ==
    /\ Parsed
    /\ Len(xresult) = 0
    /\ taskList' = xresult
    /\ options' = [labels |-> req.labels, assignee |-> req.assignee]
    /\ fpc' = "loop"
    /\ upc' = "creating"
    /\ UNCHANGED <<taskIdx, createdIssues, issueParams>>
    /\ UNCHANGED <<req, world, res, unlinks, caught>>
    /\ UNCHANGED <<xvars, cvars, svars>>

\* lines 164-169
UploadNoTasks ==
    /\ Parsed
    /\ Len(xresult) = 0
    /\ Refuse(400, "No tasks could be extracted from the document")

\* lines 172-178
UploadNoToken ==
    /\ Parsed
    /\ Len(xresult) > 0
    /\ ~req.hasToken
    /\ Refuse(401, "GitHub token not provided")

\* lines 183-190
UploadNoRepo ==
    /\ Parsed
    /\ Len(xresult) > 0
    /\ req.hasToken
    /\ ~req.hasRepo
    /\ Refuse(400, "Repository owner and name are required")

\* lines 180-199: createGitHubIssues is called with the tasks and the
\* labels and assignee of the body
UploadCreate ==
    /\ Parsed
    /\ Len(xresult) > 0
    /\ req.hasToken
    /\ req.hasRepo
    /\ taskList' = xresult
    /\ options' = [labels |-> req.labels, assignee |-> req.assignee]
    /\ fpc' = "loop"
    /\ upc' = "creating"
    /\ UNCHANGED <<taskIdx, createdIssues, issueParams>>
    /\ UNCHANGED <<req, world, res, unlinks, caught>>
    /\ UNCHANGED <<xvars, cvars, svars>>

\* lines 201-206: fs.unlink is attempted; its failure is only logged
UploadCleanup ==
    /\ upc = "creating"
    /\ fpc = "returned"
    /\ unlinks' = unlinks + 1
    /\ upc' = "cleaned"
    /\ UNCHANGED <<req, world, res, caught>>
    /\ UNCHANGED <<xvars, fvars, cvars, svars>>

\* !i.error
NoError(i) == ~("error" \in DOMAIN i /\ i.error # "")
\* createdIssues.filter(i => !i.error).length
CountCreated(issues) ==
    Cardinality({k \in 1..Len(issues) : NoError(issues[k])})

\* lines 208-216
CreatedResponse(extracted, issues) ==
    [ status  |-> 201,
      success |-> TRUE,
      data    |-> [ tasksExtracted |-> Len(extracted),
                    issuesCreated  |-> CountCreated(issues),
                    details        |-> issues ] ]

UploadRespondCreated ==
    /\ upc = "cleaned"
    /\ res' = CreatedResponse(xresult, createdIssues)
    /\ upc' = "responded"
    /\ UNCHANGED <<req, world, unlinks, caught>>
    /\ UNCHANGED <<xvars, fvars, cvars, svars>>

\* lines 218-225: the catch clause attempts fs.unlink when req.file.path
\* is set
UploadCatch ==
    /\ upc = "caught"
    /\ unlinks' = IF req.hasFile THEN unlinks + 1 ELSE unlinks
    /\ upc' = "caughtCleaned"
    /\ UNCHANGED <<req, world, res, caught>>
    /\ UNCHANGED <<xvars, fvars, cvars, svars>>

\* error.message || 'An error occurred during file processing'
MessageOf(m) ==
    IF m # "" THEN m ELSE "An error occurred during file processing"

\* lines 227-231
UploadRespondError ==
    /\ upc = "caughtCleaned"
    /\ res' = ErrorResponse(500, MessageOf(caught))
    /\ upc' = "responded"
    /\ UNCHANGED <<req, world, unlinks, caught>>
    /\ UNCHANGED <<xvars, fvars, cvars, svars>>

\* the client on the repository the request names
UploadClient ==
    \/ /\ world.repoReachable
       /\ \E c \in clientPending : ClientResolve(c)
    \/ \E c \in clientPending, m \in ErrorMessages : ClientReject(c, m)

-----------------------------------------------------------------------------
(* GitHubService.createIssue *)

NoError0 == <<>>
NoId == <<>>
Unsettled == <<"pending">>

\* the variables of the service when createIssue is not called
ServiceIdle ==
    /\ sargs = [labels |-> <<>>, assignees |-> <<>>, body |-> Undefined]
    /\ github = [repoExists |-> TRUE, labels |-> {}, users |-> {}]
    /\ spc = "idle"
    /\ gqlSent = <<>>
    /\ gqlPending = {}
    /\ gqlReplies = <<>>
    /\ repoId = NoId
    /\ labelIds = <<>>
    /\ userSlots = <<>>
    /\ allError = NoError0
    /\ settleOrder = <<>>
    /\ assigneeIds = <<>>
    /\ sresult = <<>>
    /\ serverIssues = <<>>

\* the labels of the repository in the order the server lists them, and
\* the logins a request may name
RepoLabelOrder == <<"bug", "roadmap">>
LabelLists == {<<>>, <<"bug">>, <<"bug", "roadmap">>, <<"roadmap", "bug">>}
LoginLists == {<<>>, <<"ann">>, <<"ann", "bob">>, <<"bob", "ann">>}
ServiceArgs ==
    [ labels    : LabelLists,
      assignees : LoginLists,
      body      : {Undefined, JsText("details")} ]
Servers ==
    [ repoExists : BOOLEAN,
      labels     : SUBSET {"bug", "roadmap"},
      users      : SUBSET {"ann", "bob"} ]

\* the node ids the server gives
RepositoryId == <<"R", RepoOwner, RepoName>>
LabelId(name) == <<"LA", name>>
UserId(login) == <<"U", login>>

\* the documents given to client.request with their variables
RepoQuery ==
    [op |-> "GetRepositoryId", vars |-> [owner |-> RepoOwner, name |-> RepoName]]
LabelQuery(rid, names) ==
    [op |-> "GetLabels", vars |-> [repositoryId |-> rid, labelNames |-> names]]
UserQuery(login) == [op |-> "GetUser", vars |-> [login |-> login]]
CreateMutation(variables) == [op |-> "CreateIssue", vars |-> variables]

\* elements of a sequence
Range(s) == {s[i] : i \in DOMAIN s}

\* labels(first: 100, query: $labelNames) { nodes { id name } }: the nodes
\* of the repository's labels that the names select, in the server's order
RECURSIVE LabelNodes(_, _)
LabelNodes(order, names) ==
    IF Len(order) = 0 THEN <<>>
    ELSE (IF order[1] \in github.labels /\ order[1] \in Range(names)
          THEN <<[id |-> LabelId(order[1]), name |-> order[1]]>>
          ELSE <<>>) \o LabelNodes(Tail(order), names)

Ok(data) == [ok |-> TRUE, data |-> data]
Err(message) == [ok |-> FALSE, message |-> message]

\* what the server answers to a request
Answer(q) ==
    CASE q.op = "GetRepositoryId" ->
           IF github.repoExists
           THEN Ok([repository |-> [id |-> RepositoryId]])
           ELSE Err(<<"Could not resolve to a Repository">>)
      [] q.op = "GetLabels" ->
           Ok([repository |->
                 [labels |-> [nodes |-> LabelNodes(RepoLabelOrder, q.vars.labelNames)]]])
      [] q.op = "GetUser" ->
           IF q.vars.login \in github.users
           THEN Ok([user |-> [id |-> UserId(q.vars.login)]])
           ELSE Err(<<"Could not resolve to a User">>)
      [] q.op = "CreateIssue" ->
           Ok([createIssue |->
                 [issue |-> [ number    |-> Len(serverIssues) + 1,
                              title     |-> q.vars.title,
                              body      |-> q.vars.body,
                              labels    |-> q.vars.labelIds,
                              assignees |-> q.vars.assigneeIds ]]])

\* the server answers request i; a createIssue mutation creates the issue
GqlRespond(i) ==
    /\ i \in gqlPending
    /\ gqlReplies' = (i :> Answer(gqlSent[i])) @@ gqlReplies
    /\ gqlPending' = gqlPending \ {i}
    /\ serverIssues' =
         IF gqlSent[i].op = "CreateIssue"
         THEN Append(serverIssues, gqlSent[i].vars)
         ELSE serverIssues
    /\ UNCHANGED <<sargs, github, spc, gqlSent, repoId, labelIds, userSlots,
                   allError, settleOrder, assigneeIds, sresult>>

\* request i fails on the way: client.request rejects
GqlFail(i) ==
    /\ i \in gqlPending
    /\ gqlReplies' = (i :> Err(<<"request failed">>)) @@ gqlReplies
    /\ gqlPending' = gqlPending \ {i}
    /\ UNCHANGED <<sargs, github, spc, gqlSent, repoId, labelIds, userSlots,
                   allError, settleOrder, assigneeIds, sresult, serverIssues>>

Answered(i) == i \in DOMAIN gqlReplies

\* this.client.request(...) for each of the requests qs
Send(qs) ==
    /\ gqlSent' = gqlSent \o qs
    /\ gqlPending' = gqlPending \cup (Len(gqlSent) + 1 .. Len(gqlSent) + Len(qs))

\* body || ''
BodyOrEmpty(b) == IF b.type = "string" /\ b.val # "" THEN b.val ELSE ""

IssueTitleArg == "Roadmap item"

\* lines 88-94
MutationVariables(rid, lids, aids) ==
    [ repositoryId |-> rid,
      title        |-> IssueTitleArg,
      body         |-> BodyOrEmpty(sargs.body),
      labelIds     |-> lids,
      assigneeIds  |-> aids ]

\* lines 76-96: what createIssue does next, having the repository id
\* (from = "repo"), the label ids as well (from = "labels"), or the
\* assignee ids as well (from = "assignees")
Continue(rid, lids, aids, from) ==
    LET needLabels == from = "repo" /\ Len(sargs.labels) > 0
        needUsers  == from \in {"repo", "labels"} /\ Len(sargs.assignees) > 0
    IN  /\ repoId' = rid
        /\ labelIds' = lids
        /\ assigneeIds' = aids
        /\ IF needLabels
           THEN /\ Send(<<LabelQuery(rid, sargs.labels)>>)
                /\ spc' = "labelIds"
                /\ UNCHANGED userSlots
           ELSE IF needUsers
           THEN /\ Send([k \in 1..Len(sargs.assignees) |->
                           UserQuery(sargs.assignees[k])])
                /\ spc' = "assigneeIds"
                /\ userSlots' = [k \in 1..Len(sargs.assignees) |-> Unsettled]
           ELSE /\ Send(<<CreateMutation(MutationVariables(rid, lids, aids))>>)
                /\ spc' = "mutation"
                /\ UNCHANGED userSlots
        /\ UNCHANGED <<sargs, github, gqlReplies, allError, settleOrder, sresult, serverIssues>>

\* lines 98-100: throw new Error(`Failed to create issue: ${error.message}`)
Reject(message) ==
    /\ spc' = "rejected"
    /\ sresult' = Err(<<"Failed to create issue">> \o message)
    /\ UNCHANGED <<sargs, github, gqlSent, gqlPending, gqlReplies, repoId,
                   labelIds, userSlots, allError, settleOrder, assigneeIds, serverIssues>>

\* lines 72-74 and 119: createIssue calls getRepositoryId, which sends its
\* query
SvcStart ==
    /\ spc = "start"
    /\ Send(<<RepoQuery>>)
    /\ spc' = "repoId"
    /\ UNCHANGED <<sargs, github, gqlReplies, repoId, labelIds, userSlots,
                   allError, settleOrder, assigneeIds, sresult, serverIssues>>

\* lines 119-123 and 74-86: getRepositoryId returns data.repository.id or
\* throws; createIssue goes on to the label lookup, the user lookups or the
\* mutation
SvcOnRepoId ==
    /\ spc = "repoId"
    /\ Answered(1)
    /\ IF gqlReplies[1].ok
       THEN Continue(gqlReplies[1].data.repository.id, <<>>, <<>>, "repo")
       ELSE Reject(<<"Failed to get repository ID">> \o gqlReplies[1].message)

\* data.repository.labels.nodes.map((label) => label.id)
NodeIds(nodes) == [k \in 1..Len(nodes) |-> nodes[k].id]

\* faulty variant: getLabelIds throws when a requested name has no node
SvcOnLabelIdsStrict ==
    /\ spc = "labelIds"
    /\ Answered(2)
    /\ IF /\ gqlReplies[2].ok
          /\ Len(gqlReplies[2].data.repository.labels.nodes) = Len(sargs.labels)
       THEN Continue(repoId, NodeIds(gqlReplies[2].data.repository.labels.nodes),
                     <<>>, "labels")
       ELSE Reject(<<"Failed to get label IDs">>)

\* lines 146-155 and 79-86: getLabelIds returns the ids of the nodes or
\* throws; createIssue goes on
SvcOnLabelIds ==
    /\ spc = "labelIds"
    /\ Answered(2)
    /\ IF gqlReplies[2].ok
       THEN Continue(repoId, NodeIds(gqlReplies[2].data.repository.labels.nodes),
                     <<>>, "labels")
       ELSE Reject(<<"Failed to get label IDs">> \o gqlReplies[2].message)

\* the request of the k-th getUserId: the lookups are sent together, after
\* the repository query and the label query if there was one
UserReq(k) == (IF Len(sargs.labels) > 0 THEN 2 ELSE 1) + k

Rejected0 == <<"rejected">>

\* faulty variant: the ids are collected in the order the lookups complete
SvcOnUserPush(k) ==
    /\ k \in DOMAIN userSlots
    /\ k \notin {settleOrder[j] : j \in DOMAIN settleOrder}
    /\ Answered((IF Len(sargs.labels) > 0 THEN 2 ELSE 1) + k)
    /\ LET reply == gqlReplies[(IF Len(sargs.labels) > 0 THEN 2 ELSE 1) + k]
           free  == Len(settleOrder) + 1
       IN  IF reply.ok
           THEN /\ userSlots' = [userSlots EXCEPT ![free] = reply.data.user.id]
                /\ UNCHANGED allError
           ELSE /\ userSlots' = [userSlots EXCEPT ![free] = <<"rejected">>]
                /\ allError' =
                     IF allError = NoError0
                     THEN <<"Failed to get user ID for", sargs.assignees[k]>>
                            \o reply.message
                     ELSE allError
    /\ settleOrder' = Append(settleOrder, k)
    /\ UNCHANGED <<sargs, github, spc, gqlSent, gqlPending, gqlReplies, repoId,
                   labelIds, assigneeIds, sresult, serverIssues>>

\* lines 182-187 and 164-165: the k-th getUserId returns data.user.id or
\* throws; Promise.all keeps the id in slot k, or rejects with the first
\* error thrown
SvcOnUser(k) ==
    /\ k \in DOMAIN userSlots
    /\ userSlots[k] = Unsettled
    /\ Answered(UserReq(k))
    /\ LET reply == gqlReplies[UserReq(k)]
       IN  IF reply.ok
           THEN /\ userSlots' = [userSlots EXCEPT ![k] = reply.data.user.id]
                /\ UNCHANGED allError
           ELSE /\ userSlots' = [userSlots EXCEPT ![k] = Rejected0]
                /\ allError' =
                     IF allError = NoError0
                     THEN <<"Failed to get user ID for", sargs.assignees[k]>>
                            \o reply.message
                     ELSE allError
    /\ settleOrder' = Append(settleOrder, k)
    /\ UNCHANGED <<sargs, github, spc, gqlSent, gqlPending, gqlReplies, repoId,
                   labelIds, assigneeIds, sresult, serverIssues>>

AllFulfilled ==
    \A k \in DOMAIN userSlots : userSlots[k] \notin {Unsettled, Rejected0}

\* the ids of the slots that hold one, in slot order
RECURSIVE FulfilledIds(_)
FulfilledIds(slots) ==
    IF Len(slots) = 0 THEN <<>>
    ELSE (IF slots[1] \in {Unsettled, Rejected0} THEN <<>> ELSE <<slots[1]>>)
           \o FulfilledIds(Tail(slots))

\* faulty variant: the lookups are waited for with allSettled and the
\* users that did not resolve are left out
SvcOnAssigneeIdsSettled ==
    /\ spc = "assigneeIds"
    /\ \A k \in DOMAIN userSlots : userSlots[k] # Unsettled
    /\ Continue(repoId, labelIds, FulfilledIds(userSlots), "assignees")

\* lines 85 and 88-96: Promise.all has settled; createIssue sends the
\* mutation with the ids in slot order, or rejects
SvcOnAssigneeIds ==
    /\ spc = "assigneeIds"
    /\ allError # NoError0 \/ AllFulfilled
    /\ IF allError # NoError0
       THEN Reject(allError)
       ELSE Continue(repoId, labelIds, userSlots, "assignees")

\* lines 96-97: the mutation's answer: return data.createIssue.issue
SvcOnMutation ==
    /\ spc = "mutation"
    /\ Answered(Len(gqlSent))
    /\ LET reply == gqlReplies[Len(gqlSent)]
       IN  IF reply.ok
           THEN /\ spc' = "resolved"
                /\ sresult' = Ok(reply.data.createIssue.issue)
                /\ UNCHANGED <<sargs, github, gqlSent, gqlPending, gqlReplies,
                               repoId, labelIds, userSlots, allError, settleOrder,
                               assigneeIds, serverIssues>>
           ELSE Reject(reply.message)

-----------------------------------------------------------------------------
(* GitHubService.updateIssue, closeIssue, reopenIssue *)

IssueIds == {"I_1", "I_2"}
\* what a caller passes for a field: nothing, the empty string, a text
FieldValues(texts) == {Undefined, JsText("")} \cup {JsText(t) : t \in texts}

\* the calls: updateIssue with any combination of fields, closeIssue and
\* reopenIssue with an issue id
UpdateCalls ==
    [ entry   : {"updateIssue"},
      issueId : IssueIds,
      title   : FieldValues({"New title"}),
      body    : FieldValues({"New body"}),
      state   : FieldValues({"OPEN", "CLOSED"}) ]
    \cup
    [ entry   : {"closeIssue", "reopenIssue"},
      issueId : IssueIds,
      title   : {Undefined},
      body    : {Undefined},
      state   : {Undefined} ]

\* the issue on the server before the call
StoredIssue(id) ==
    [id |-> id, title |-> "Old title", body |-> "Old body", state |-> "OPEN"]

\* JavaScript truthiness of a field value
Truthy(v) == v.type = "string" /\ v.val # ""

\* ...(x && { x }): the field when x is truthy, nothing otherwise
SpreadIf(name, v) ==
    IF Truthy(v) THEN [f \in {name} |-> v.val] ELSE [f \in {} |-> ""]

\* lines 339-344
UpdateVariables(p) ==
    [f \in {"issueId"} |-> p.issueId]
      @@ SpreadIf("title", p.title)
      @@ SpreadIf("body", p.body)
      @@ SpreadIf("state", p.state)

UpdateMutation(variables) == [op |-> "UpdateIssue", vars |-> variables]

\* lines 359-364: closeIssue calls updateIssue({ issueId, state: 'CLOSED' })
CloseIssue ==
    /\ spc = "entry"
    /\ sargs.entry = "closeIssue"
    /\ sargs' = [sargs EXCEPT !.state = JsText("CLOSED")]
    /\ spc' = "updateIssue"
    /\ UNCHANGED <<github, gqlSent, gqlPending, gqlReplies, repoId, labelIds,
                   userSlots, allError, settleOrder, assigneeIds, sresult, serverIssues>>

\* lines 371-376: reopenIssue calls updateIssue({ issueId, state: 'OPEN' })
ReopenIssue ==
    /\ spc = "entry"
    /\ sargs.entry = "reopenIssue"
    /\ sargs' = [sargs EXCEPT !.state = JsText("OPEN")]
    /\ spc' = "updateIssue"
    /\ UNCHANGED <<github, gqlSent, gqlPending, gqlReplies, repoId, labelIds,
                   userSlots, allError, settleOrder, assigneeIds, sresult, serverIssues>>

\* lines 338-346: updateIssue builds the variables and sends the mutation
UpdateIssue ==
    /\ spc = "updateIssue"
    /\ Send(<<UpdateMutation(UpdateVariables(sargs))>>)
    /\ spc' = "updating"
    /\ UNCHANGED <<sargs, github, gqlReplies, repoId, labelIds, userSlots,
                   allError, settleOrder, assigneeIds, sresult, serverIssues>>

\* updateIssue(input: {id, title, body, state}): the server changes the
\* fields the input holds and leaves the others
Updated(issue, input) ==
    [f \in DOMAIN issue |->
       IF f # "id" /\ f \in DOMAIN input THEN input[f] ELSE issue[f]]

\* the server applies the mutation of request i and answers with the issue
UpdateRespond(i) ==
    /\ i \in gqlPending
    /\ gqlSent[i].op = "UpdateIssue"
    /\ serverIssues' =
         [serverIssues EXCEPT ![1] = Updated(serverIssues[1], gqlSent[i].vars)]
    /\ gqlReplies' =
         (i :> Ok([updateIssue |-> [issue |-> serverIssues'[1]]])) @@ gqlReplies
    /\ gqlPending' = gqlPending \ {i}
    /\ UNCHANGED <<sargs, github, spc, gqlSent, repoId, labelIds, userSlots,
                   allError, settleOrder, assigneeIds, sresult>>

\* lines 346-350: return data.updateIssue.issue, or
\* throw new Error(`Failed to update issue: ${error.message}`)
UpdateOnReply ==
    /\ spc = "updating"
    /\ Answered(1)
    /\ IF gqlReplies[1].ok
       THEN /\ spc' = "resolved"
            /\ sresult' = Ok(gqlReplies[1].data.updateIssue.issue)
       ELSE /\ spc' = "rejected"
            /\ sresult' = Err(<<"Failed to update issue">> \o gqlReplies[1].message)
    /\ UNCHANGED <<sargs, github, gqlSent, gqlPending, gqlReplies, repoId,
                   labelIds, userSlots, allError, settleOrder, assigneeIds, serverIssues>>

-----------------------------------------------------------------------------
(* Specifications *)

\* createGitHubIssues called with a task list and options
Init ==
    /\ taskList \in TaskLists
    /\ options \in OptionValues
    /\ fpc = "loop"
    /\ FanIdle
    /\ text = JsOther("undefined", FALSE)
    /\ xpc = "idle"
    /\ ExtractIdle
    /\ UploadIdle
    /\ ServiceIdle

Next ==
    \/ FanCreate /\ UNCHANGED <<xvars, uvars, svars>>
    \/ \E c \in clientPending : ClientResolve(c) /\ UNCHANGED <<xvars, uvars, svars>>
    \/ \E c \in clientPending, m \in ErrorMessages :
          ClientReject(c, m) /\ UNCHANGED <<xvars, uvars, svars>>
    \/ FanOnResolved /\ UNCHANGED <<xvars, uvars, svars>>
    \/ FanOnRejected /\ UNCHANGED <<xvars, uvars, svars>>
    \/ FanReturn /\ UNCHANGED <<xvars, uvars, svars>>

Spec == Init /\ [][Next]_vars

\* extractTasksFromText called with a value
InitExtract ==
    /\ text \in InputValues
    /\ xpc = "start"
    /\ ExtractIdle
    /\ taskList = <<>>
    /\ options = [labels |-> Undefined, assignee |-> Undefined]
    /\ fpc = "idle"
    /\ FanIdle
    /\ UploadIdle
    /\ ServiceIdle

NextExtract ==
    \/ ExtractGuard /\ UNCHANGED <<fvars, cvars, uvars, svars>>
    \/ ExtractSplit /\ UNCHANGED <<fvars, cvars, uvars, svars>>
    \/ ExtractNumbered /\ UNCHANGED <<fvars, cvars, uvars, svars>>
    \/ ExtractBullet /\ UNCHANGED <<fvars, cvars, uvars, svars>>
    \/ ExtractDash /\ UNCHANGED <<fvars, cvars, uvars, svars>>
    \/ ExtractPlain /\ UNCHANGED <<fvars, cvars, uvars, svars>>
    \/ ExtractSkip /\ UNCHANGED <<fvars, cvars, uvars, svars>>
    \/ ExtractReturn /\ UNCHANGED <<fvars, cvars, uvars, svars>>

SpecExtract == InitExtract /\ [][NextExtract]_vars

\* createGitHubIssues with a client that may leave a call unsettled
InitHang ==
    /\ Init
    /\ options = [labels |-> Undefined, assignee |-> Undefined]

NextHang ==
    \/ Next
    \/ \E c \in clientPending : ClientHang(c) /\ UNCHANGED <<xvars, uvars, svars>>

\* the event loop runs every continuation that is ready; the client decides
\* the fate of every pending call: it resolves it, rejects it, or never
\* settles it
ClientDecides ==
    \E c \in clientPending :
       \/ ClientResolve(c)
       \/ \E m \in ErrorMessages : ClientReject(c, m)
       \/ ClientHang(c)

FairHang ==
    /\ WF_vars(FanCreate /\ UNCHANGED <<xvars, uvars, svars>>)
    /\ WF_vars(FanOnResolved /\ UNCHANGED <<xvars, uvars, svars>>)
    /\ WF_vars(FanOnRejected /\ UNCHANGED <<xvars, uvars, svars>>)
    /\ WF_vars(FanReturn /\ UNCHANGED <<xvars, uvars, svars>>)
    /\ WF_vars(ClientDecides /\ UNCHANGED <<xvars, uvars, svars>>)

SpecHang == InitHang /\ [][NextHang]_vars /\ FairHang

\* GitHubService.createIssue called with its parameters
InitService ==
    /\ sargs \in ServiceArgs
    /\ github \in Servers
    /\ spc = "start"
    /\ gqlSent = <<>>
    /\ gqlPending = {}
    /\ gqlReplies = <<>>
    /\ repoId = NoId
    /\ labelIds = <<>>
    /\ userSlots = <<>>
    /\ allError = NoError0
    /\ settleOrder = <<>>
    /\ assigneeIds = <<>>
    /\ sresult = <<>>
    /\ serverIssues = <<>>
    /\ text = JsOther("undefined", FALSE)
    /\ xpc = "idle"
    /\ ExtractIdle
    /\ taskList = <<>>
    /\ options = [labels |-> Undefined, assignee |-> Undefined]
    /\ fpc = "idle"
    /\ FanIdle
    /\ UploadIdle

NextService ==
    \/ SvcStart /\ UNCHANGED <<xvars, fvars, cvars, uvars>>
    \/ \E i \in gqlPending : GqlRespond(i) /\ UNCHANGED <<xvars, fvars, cvars, uvars>>
    \/ \E i \in gqlPending : GqlFail(i) /\ UNCHANGED <<xvars, fvars, cvars, uvars>>
    \/ SvcOnRepoId /\ UNCHANGED <<xvars, fvars, cvars, uvars>>
    \/ SvcOnLabelIds /\ UNCHANGED <<xvars, fvars, cvars, uvars>>
    \/ \E k \in DOMAIN userSlots : SvcOnUser(k) /\ UNCHANGED <<xvars, fvars, cvars, uvars>>
    \/ SvcOnAssigneeIds /\ UNCHANGED <<xvars, fvars, cvars, uvars>>
    \/ SvcOnMutation /\ UNCHANGED <<xvars, fvars, cvars, uvars>>

SpecService == InitService /\ [][NextService]_vars

\* updateIssue, closeIssue or reopenIssue called on a stored issue
InitUpdate ==
    /\ sargs \in UpdateCalls
    /\ spc = IF sargs.entry = "updateIssue" THEN "updateIssue" ELSE "entry"
    /\ github = [repoExists |-> TRUE, labels |-> {}, users |-> {}]
    /\ serverIssues = <<StoredIssue(sargs.issueId)>>
    /\ gqlSent = <<>>
    /\ gqlPending = {}
    /\ gqlReplies = <<>>
    /\ repoId = NoId
    /\ labelIds = <<>>
    /\ userSlots = <<>>
    /\ allError = NoError0
    /\ settleOrder = <<>>
    /\ assigneeIds = <<>>
    /\ sresult = <<>>
    /\ text = JsOther("undefined", FALSE)
    /\ xpc = "idle"
    /\ ExtractIdle
    /\ taskList = <<>>
    /\ options = [labels |-> Undefined, assignee |-> Undefined]
    /\ fpc = "idle"
    /\ FanIdle
    /\ UploadIdle

NextUpdate ==
    \/ CloseIssue /\ UNCHANGED <<xvars, fvars, cvars, uvars>>
    \/ ReopenIssue /\ UNCHANGED <<xvars, fvars, cvars, uvars>>
    \/ UpdateIssue /\ UNCHANGED <<xvars, fvars, cvars, uvars>>
    \/ \E i \in gqlPending : UpdateRespond(i) /\ UNCHANGED <<xvars, fvars, cvars, uvars>>
    \/ \E i \in gqlPending : GqlFail(i) /\ UNCHANGED <<xvars, fvars, cvars, uvars>>
    \/ UpdateOnReply /\ UNCHANGED <<xvars, fvars, cvars, uvars>>

SpecUpdate == InitUpdate /\ [][NextUpdate]_vars

\* uploadFile called with a request
InitUpload ==
    /\ req \in Requests
    /\ world \in Worlds
    /\ upc = "start"
    /\ res = NoResponse
    /\ unlinks = 0
    /\ caught = ""
    /\ text = JsOther("undefined", FALSE)
    /\ xpc = "idle"
    /\ ExtractIdle
    /\ taskList = <<>>
    /\ options = [labels |-> Undefined, assignee |-> Undefined]
    /\ fpc = "idle"
    /\ FanIdle
    /\ ServiceIdle

NextUpload ==
    \/ UploadNoFile
    \/ UploadBadType
    \/ UploadParse
    \/ UploadParseThrows
    \/ UploadNoTasks
    \/ UploadNoToken
    \/ UploadNoRepo
    \/ UploadCreate
    \/ UploadCleanup
    \/ UploadRespondCreated
    \/ UploadCatch
    \/ UploadRespondError
    \/ NextExtract
    \/ FanCreate /\ UNCHANGED <<xvars, uvars, svars>>
    \/ UploadClient /\ UNCHANGED <<xvars, uvars, svars>>
    \/ FanOnResolved /\ UNCHANGED <<xvars, uvars, svars>>
    \/ FanOnRejected /\ UNCHANGED <<xvars, uvars, svars>>
    \/ FanReturn /\ UNCHANGED <<xvars, uvars, svars>>

SpecUpload == InitUpload /\ [][NextUpload]_vars

-----------------------------------------------------------------------------
(* Properties of createGitHubIssues (checked under Spec) *)

IsFailure(r) == "error" \in DOMAIN r
IsSuccess(r) == ~IsFailure(r)
Failures == {i \in 1..Len(createdIssues) : IsFailure(createdIssues[i])}
Successes == {i \in 1..Len(createdIssues) : IsSuccess(createdIssues[i])}
RejectedCalls == {c \in DOMAIN clientReplies : ~clientReplies[c].ok}
ResolvedCalls == {c \in DOMAIN clientReplies : clientReplies[c].ok}

\* the create call c carries the text of task i
CallIsFor(c, i) ==
    clientCalls[c].body \in {taskList[i], TaskPrefix \o taskList[i]}

\* the record at index i tells the fate of task i: of the i-th create call,
\* which carried task i
Pertains(i) ==
    LET r == createdIssues[i]
    IN  /\ Settled(i)
        /\ CallIsFor(i, i)
        /\ IF IsFailure(r)
           THEN /\ ~clientReplies[i].ok
                /\ r.error = clientReplies[i].message
           ELSE /\ clientReplies[i].ok
                /\ r.number = clientReplies[i].data.number
                /\ r.url = clientReplies[i].data.html_url
        /\ IsFailure(r) => r.task = taskList[i]
        /\ IsSuccess(r) => r.title = IssueTitle(taskList[i])

\* C1: createGitHubIssues never rejects, whatever the client does; it has
\* one record per completed task, so it returns exactly N records for N
\* tasks, and the record at index i pertains to the task at index i.
C1_OneRecordPerTask ==
    /\ fpc # "rejected"
    /\ Len(createdIssues) = taskIdx
    /\ \A i \in 1..Len(createdIssues) : Pertains(i)
    /\ fpc = "returned" => Len(createdIssues) = Len(taskList)

C1_Witness ==
    /\ fpc = "returned"
    /\ Len(taskList) = 3
    /\ RejectedCalls = {1, 3}
    /\ ResolvedCalls = {2}
    /\ Len(createdIssues) = 3

\* C2: when the client rejects the create call of exactly one of the N
\* tasks, the one at index k, the returned list has N records, N-1 of them
\* success records and one a failure record, and the failure is at index k.
C2_SingleFailure ==
    (fpc = "returned" /\ Cardinality(RejectedCalls) = 1) =>
        /\ Len(createdIssues) = Len(taskList)
        /\ Cardinality(Successes) = Len(taskList) - 1
        /\ Cardinality(Failures) = 1
        /\ \A k \in RejectedCalls :
              /\ CallIsFor(k, k)
              /\ Failures = {k}

C2_Witness ==
    /\ fpc = "returned"
    /\ Len(taskList) = 3
    /\ RejectedCalls = {2}
    /\ Failures = {2}
    /\ Successes = {1, 3}

\* C3: the create operation is invoked exactly once per task: the calls
\* made so far are one for each task already handled plus the one being
\* awaited, call c is the call for task c (no retry, no skipped task), and
\* at the return there are exactly N calls.
C3_OneCallPerTask ==
    /\ Len(clientCalls) = taskIdx + (IF fpc = "awaiting" THEN 1 ELSE 0)
    /\ \A c \in 1..Len(clientCalls) :
          /\ c <= Len(taskList)
          /\ CallIsFor(c, c)
          /\ clientCalls[c].title = IssueTitle(taskList[c])
    /\ fpc = "returned" => Len(clientCalls) = Len(taskList)

\* task #1 failed, task #2 was still created
C3_Witness ==
    /\ fpc = "returned"
    /\ Len(taskList) = 2
    /\ taskList[1] # taskList[2]
    /\ RejectedCalls = {1}
    /\ ResolvedCalls = {2}
    /\ Len(clientCalls) = 2
    /\ IsSuccess(createdIssues[2])

\* C4: create calls are issued in input order and never overlap: at most
\* one call is in flight, it is the latest one, and every earlier call has
\* resolved or rejected before the next one was started.
C4_Sequential ==
    /\ Cardinality(clientPending) <= 1
    /\ clientPending \subseteq {Len(clientCalls)}
    /\ \A c \in 1..(Len(clientCalls) - 1) : Settled(c)
    /\ \A c \in 1..Len(clientCalls) :
          c <= Len(taskList) /\ clientCalls[c].body = IssueBody(taskList[c])

C4_Witness ==
    /\ fpc = "awaiting"
    /\ Len(clientCalls) = 3
    /\ clientPending = {3}
    /\ Settled(1)
    /\ Settled(2)

IsPrefix(p, s) == Len(p) <= Len(s) /\ \A i \in 1..Len(p) : p[i] = s[i]

\* C10: the title sent to the client is the first 100 characters of the
\* task: at most 100 characters, a prefix of the task, and the whole task
\* when the task has at most 100 characters.
C10_TitleTruncated ==
    \A c \in 1..Len(clientCalls) :
        LET title == clientCalls[c].title
            task == taskList[c]
        IN  /\ Len(title) <= 100
            /\ IsPrefix(title, task)
            /\ Len(task) <= 100 => title = task
            /\ Len(task) > 100 => Len(title) = 100

C10_Witness ==
    \E c \in 1..Len(clientCalls) :
        /\ Len(taskList[c]) = 101
        /\ Len(clientCalls[c].title) = 100
        /\ clientCalls[c].title # taskList[c]

-----------------------------------------------------------------------------
(* Properties of extractTasksFromText (checked under SpecExtract) *)

Returned == xpc = "returned"
ReturnedFromString == xpc = "returned" /\ text.type = "string"
Elems(q) == {q[i] : i \in 1..Len(q)}

\* C5: every element of the returned list is a non-empty string without
\* leading or trailing whitespace.
C5_TasksTrimmed ==
    Returned =>
        \A i \in 1..Len(xresult) :
            /\ Len(xresult[i]) > 0
            /\ xresult[i][1] \notin StrWhiteSpace
            /\ xresult[i][Len(xresult[i])] \notin StrWhiteSpace

\* "  - Foo  " comes out as "Foo"
C5_Witness ==
    /\ Returned
    /\ text.str = LnPadDash
    /\ xresult = <<LnFoo>>

\* position of the first occurrence of x in q
FirstPos(q, x) == CHOOSE k \in 1..Len(q) : q[k] = x /\ \A m \in 1..(k - 1) : q[m] # x

\* C6: the returned list is the list of tasks produced line by line with
\* every later occurrence of a string removed: no string occurs twice, the
\* strings are exactly the produced ones (compared exactly, so strings that
\* differ in case are both kept), in the order of their first production.
C6_FirstOccurrenceKept ==
    ReturnedFromString =>
        /\ \A i, j \in 1..Len(xresult) : i # j => xresult[i] # xresult[j]
        /\ Elems(xresult) = Elems(tasks)
        /\ \A i, j \in 1..Len(xresult) :
              i < j => FirstPos(tasks, xresult[i]) < FirstPos(tasks, xresult[j])

\* "1. Foo", "* foo", "- Foo": the third line repeats the first by another rule
C6_Witness ==
    /\ Returned
    /\ text.str = Join(<<LnNumFoo, LnStarLower, LnDashFoo>>)
    /\ tasks = <<LnFoo, <<"f", "o", "o">>, LnFoo>>
    /\ xresult = <<LnFoo, <<"f", "o", "o">>>>

\* The rules of the cascade as the contract words them.  "Content" is one or
\* more characters up to the end of the line, none of them a line break.
\* The tasks a marker of k characters followed by at least minWs whitespace
\* characters and content gives:
MarkerTasks(l, k, minWs) ==
    { Trim(SubSeq(l, k + w + 1, Len(l))) :
        w \in { w \in minWs..Len(l) :
                  /\ k + w < Len(l)
                  /\ \A m \in (k + 1)..(k + w) : l[m] \in {" ", "\t", "\n", "\r"}
                  /\ \A m \in (k + w + 1)..Len(l) : l[m] \notin {"\n", "\r"} } }

Rule1Tasks(l) ==
    UNION { MarkerTasks(l, d + 1, 1) :
              d \in { d \in 1..(Len(l) - 1) :
                        /\ \A m \in 1..d : l[m] \in Digits
                        /\ l[d + 1] = "." } }
Rule2Tasks(l) ==
    IF Len(l) > 0 /\ l[1] \in {Bullet, "-", "*"} THEN MarkerTasks(l, 1, 1) ELSE {}
Rule3Tasks(l) ==
    IF Len(l) > 0 /\ l[1] = "-" THEN MarkerTasks(l, 1, 0) ELSE {}
Rule4Tasks(l) ==
    IF Len(l) > 3 /\ l[Len(l)] # ":" THEN {l} ELSE {}

\* the first rule that matches decides
CascadeTasks(l) ==
    IF Rule1Tasks(l) # {} THEN Rule1Tasks(l)
    ELSE IF Rule2Tasks(l) # {} THEN Rule2Tasks(l)
    ELSE IF Rule3Tasks(l) # {} THEN Rule3Tasks(l)
    ELSE Rule4Tasks(l)

RECURSIVE CascadeOver(_)
CascadeOver(ls) ==
    IF Len(ls) = 0 THEN <<>>
    ELSE (IF CascadeTasks(ls[1]) = {} THEN <<>>
          ELSE <<CHOOSE t \in CascadeTasks(ls[1]) : TRUE>>) \o CascadeOver(Tail(ls))

TaskBuyMilk == <<"B", "u", "y", " ", "m", "i", "l", "k">>
TaskCallBob == <<"C", "a", "l", "l", " ", "B", "o", "b">>

\* C7: each line gives what the first matching rule of the cascade gives and
\* nothing else: the tasks pushed after k lines are those the cascade yields
\* for these k lines, one at most per line; and the example text yields
\* "Buy milk", "Call Bob", "Short".
C7_FirstMatchingRule ==
    /\ xpc \in {"loop", "returned"} =>
          /\ \A i \in 1..Len(lines) : Cardinality(CascadeTasks(lines[i])) <= 1
          /\ tasks = CascadeOver(SubSeq(lines, 1, lineIdx))
    /\ (Returned /\ text = JsString(ExampleText)) =>
          xresult = <<TaskBuyMilk, TaskCallBob, LnShort>>

C7_Witness ==
    /\ Returned
    /\ text = JsString(ExampleText)
    /\ lines = <<LnBuyMilk, LnCallBob, LnSummary, LnShort>>
    /\ xresult = <<TaskBuyMilk, TaskCallBob, LnShort>>

\* C8: extractTasksFromText never throws: the call is before, inside or
\* after its loop and never in a throw; it returns the empty list for every
\* value that is not a string and for the empty string, and what it returns
\* for a string is a list.
C8_NeverThrows ==
    /\ xpc # "threw"
    /\ xpc \in {"start", "loop", "returned"}
    /\ lineIdx <= Len(lines)
    /\ (Returned /\ (text.type # "string" \/ text.str = <<>>)) => xresult = <<>>
    /\ Returned => DOMAIN xresult = 1..Len(xresult)

\* a truthy value that is not a string
C8_Witness ==
    /\ Returned
    /\ text = JsOther("object", TRUE)
    /\ xresult = <<>>

\* extractTasksFromText with lines 35-40 (rule 3) deleted
NoDashLineTask(l) ==
    IF NumberedMatch(l) # NoMatch THEN <<Trim(NumberedMatch(l)[1])>>
    ELSE IF BulletMatch(l) # NoMatch THEN <<Trim(BulletMatch(l)[1])>>
    ELSE IF IsPlainTask(l) THEN <<l>>
    ELSE <<>>

RECURSIVE NoDashTasks(_)
NoDashTasks(ls) ==
    IF Len(ls) = 0 THEN <<>> ELSE NoDashLineTask(ls[1]) \o NoDashTasks(Tail(ls))

NoDashResult == DedupFilter(NoDashTasks(lines))

\* a hyphen directly followed by a character that is not whitespace
TightDash(l) == Len(l) >= 2 /\ l[1] = "-" /\ l[2] \notin StrWhiteSpace

\* C9 as stated: deleting rule 3 leaves the output unchanged for every text.
C9_RuleThreeDead ==
    ReturnedFromString => xresult = NoDashResult

\* C9 amended: rule 3 is dead only for lines whose hyphen is followed by
\* whitespace (rule 2 takes them): deleting it leaves the output unchanged
\* for every text without a line that starts with a hyphen directly followed
\* by a non-whitespace character.  Such a line (without a line break inside)
\* is taken by rule 3 and yields the remainder after the hyphen.
C9_RuleThreeTightOnly ==
    ReturnedFromString =>
        /\ (\A i \in 1..Len(lines) : ~TightDash(lines[i])) => xresult = NoDashResult
        /\ \A i \in 1..Len(lines) :
              (TightDash(lines[i]) /\ \A m \in 1..Len(lines[i]) :
                                         lines[i][m] \notin LineTerminators)
                  => SubSeq(lines[i], 2, Len(lines[i])) \in Elems(xresult)

\* "- Foo" goes to rule 2, "-ab" to rule 3
C9_Witness ==
    /\ Returned
    /\ text.str = Join(<<LnDashFoo, LnTightAb>>)
    /\ xresult = <<LnFoo, <<"a", "b">>>>
    /\ NoDashResult = <<LnFoo>>

-----------------------------------------------------------------------------
(* Further properties of createGitHubIssues (checked under Spec) *)

IsSuffix(p, s) ==
    Len(p) <= Len(s) /\ \A i \in 1..Len(p) : p[i] = s[Len(s) - Len(p) + i]

\* C11: the body sent to the client is the task verbatim when the task has
\* more than 100 characters and "Task: " followed by the task otherwise, a
\* task of exactly 100 characters included; so the body always ends with
\* the complete task.
C11_BodyKeepsTask ==
    \A c \in 1..Len(clientCalls) :
        LET body == clientCalls[c].body
            task == taskList[c]
        IN  /\ Len(task) > 100 => body = task
            /\ Len(task) <= 100 =>
                  body = <<"T", "a", "s", "k", ":", " ">> \o task
            /\ IsSuffix(task, body)

\* a task of exactly 100 characters
C11_Witness ==
    \E c \in 1..Len(clientCalls) :
        /\ Len(taskList[c]) = 100
        /\ Len(clientCalls[c].body) = 106
        /\ SubSeq(clientCalls[c].body, 1, 6) = <<"T", "a", "s", "k", ":", " ">>

CallHasAssignees(c) == "assignees" \in DOMAIN clientCalls[c]

\* C12 as stated: the labels of every call equal options.labels (a value
\* that is not a list equals no list; absent labels are the empty list), and
\* the assignees equal [options.assignee] when an assignee is given and are
\* absent otherwise.
C12_OptionsAsGiven ==
    \A c \in 1..Len(clientCalls) :
        /\ IF options.labels.type = "undefined"
           THEN clientCalls[c].labels = <<>>
           ELSE /\ options.labels.type = "array"
                /\ clientCalls[c].labels = options.labels.val
        /\ IF options.assignee.type = "string"
           THEN /\ CallHasAssignees(c)
                /\ clientCalls[c].assignees = <<options.assignee.val>>
           ELSE ~CallHasAssignees(c)

\* C12 amended: every call of one batch carries the same labels and the
\* same assignee: the labels are options.labels when that is an array and
\* the empty list otherwise (absent, or not an array, such as a single
\* string); the assignees are [options.assignee] when the assignee is a
\* non-empty string and are absent otherwise (absent or empty assignee).
C12_OptionsNormalised ==
    /\ \A c \in 1..Len(clientCalls) :
          /\ clientCalls[c].labels =
                (IF options.labels.type = "array" THEN options.labels.val ELSE <<>>)
          /\ IF options.assignee.type = "string" /\ options.assignee.val # ""
             THEN /\ CallHasAssignees(c)
                  /\ clientCalls[c].assignees = <<options.assignee.val>>
             ELSE ~CallHasAssignees(c)
    /\ \A c, d \in 1..Len(clientCalls) :
          /\ clientCalls[c].labels = clientCalls[d].labels
          /\ CallHasAssignees(c) = CallHasAssignees(d)
          /\ CallHasAssignees(c) => clientCalls[c].assignees = clientCalls[d].assignees

\* two calls of a batch with labels and an assignee
C12_Witness ==
    /\ Len(clientCalls) = 2
    /\ taskList[1] # taskList[2]
    /\ options.labels = JsArray(<<"bug", "roadmap">>)
    /\ options.assignee = JsText("octocat")
    /\ clientCalls[2].labels = <<"bug", "roadmap">>
    /\ clientCalls[2].assignees = <<"octocat">>

\* C13 as stated: every success record contains the task it was created
\* from, together with the number, title and url the client returned.
C13_SuccessHasTask ==
    \A i \in Successes :
        /\ "task" \in DOMAIN createdIssues[i]
        /\ createdIssues[i].task = taskList[i]
        /\ createdIssues[i].number = clientReplies[i].data.number
        /\ createdIssues[i].title = clientReplies[i].data.title
        /\ createdIssues[i].url = clientReplies[i].data.html_url

\* C13 amended: every success record consists of exactly the number, the
\* title and the url the client returned for that task's create call; it
\* has no task field (only failure records carry the task).
C13_SuccessFields ==
    /\ \A i \in Successes :
          /\ DOMAIN createdIssues[i] = {"number", "title", "url"}
          /\ Settled(i)
          /\ clientReplies[i].ok
          /\ createdIssues[i].number = clientReplies[i].data.number
          /\ createdIssues[i].title = clientReplies[i].data.title
          /\ createdIssues[i].url = clientReplies[i].data.html_url
    /\ \A i \in Failures : createdIssues[i].task = taskList[i]

\* a long task created as issue 2: its record holds the truncated title
C13_Witness ==
    /\ fpc = "returned"
    /\ Len(taskList) = 2
    /\ Len(taskList[2]) = 101
    /\ Successes = {1, 2}
    /\ createdIssues[2].number = 2
    /\ Len(createdIssues[2].title) = 100


\* C14: a record has an error field if and only if the client's create call
\* for that task was rejected; the field holds the rejection's message
\* unchanged, whatever the message; a failure record has no issue number and
\* no url, a success record no error field; so the records with and without
\* an error field are exactly as many as the rejected and the resolved calls
\* handled so far.
C14_ErrorIffRejected ==
    /\ \A i \in 1..Len(createdIssues) :
          /\ Settled(i)
          /\ IsFailure(createdIssues[i]) <=> ~clientReplies[i].ok
          /\ IsFailure(createdIssues[i]) =>
                /\ createdIssues[i].error = clientReplies[i].message
                /\ DOMAIN createdIssues[i] = {"task", "error"}
          /\ IsSuccess(createdIssues[i]) =>
                DOMAIN createdIssues[i] \cap {"task", "error"} = {}
    /\ Cardinality(Failures) =
          Cardinality(RejectedCalls \cap (1..Len(createdIssues)))
    /\ Cardinality(Successes) =
          Cardinality(ResolvedCalls \cap (1..Len(createdIssues)))

\* a finished run of three tasks: the first rejected with an empty message,
\* the second created, the third rejected with "Not Found"
C14_Witness ==
    /\ fpc = "returned"
    /\ Len(createdIssues) = 3
    /\ Failures = {1, 3}
    /\ createdIssues[1].error = ""
    /\ createdIssues[3].error = "Not Found"
    /\ Successes = {2}

-----------------------------------------------------------------------------
(* Properties of uploadFile (checked under SpecUpload) *)

Responded == upc = "responded"
\* the response is a failure of the whole request: an error status, success
\* false, an error message and nothing else
RequestFailure(statuses) ==
    /\ DOMAIN res = {"status", "success", "error"}
    /\ res.status \in statuses
    /\ res.success = FALSE

\* extraction ran and found no task
ZeroTasks == xpc = "returned" /\ Len(xresult) = 0

\* C15: when extraction succeeds but yields no task, uploadFile answers with
\* a request-level failure (400, success false, only an error message), and
\* at no point of that request is createGitHubIssues entered or a create
\* call made to the client.
C15_ZeroTasksRefused ==
    ZeroTasks =>
       /\ upc \in {"parsing", "responded"}
       /\ fpc = "idle"
       /\ clientCalls = <<>>
       /\ Responded =>
             /\ RequestFailure({400})
             /\ res.error = "No tasks could be extracted from the document"

\* a document holding only a heading has been refused
C15_Witness ==
    /\ Responded
    /\ text = JsString(LnSummary)
    /\ ZeroTasks
    /\ res.status = 400

\* the file passed validation but cannot be read or converted
Unconvertible == req.hasFile /\ req.mimeOk /\ ~req.doc.readable

\* C16: when the document cannot be converted to text, parseWordDocument
\* throws (extraction never runs, the catch clause holds its error), the
\* response is an error response (500, success false) holding only the
\* error message, no tasks and no issue results, and no create call is made.
C16_ParseFailureFatal ==
    Unconvertible =>
       /\ upc \in {"start", "caught", "caughtCleaned", "responded"}
       /\ upc # "start" => caught = ParseFailure
       /\ xpc = "idle"
       /\ fpc = "idle"
       /\ clientCalls = <<>>
       /\ Responded =>
             /\ RequestFailure({500})
             /\ res.error = ParseFailure

\* an unreadable file has been answered with 500
C16_Witness ==
    /\ Responded
    /\ Unconvertible
    /\ res.status = 500
    /\ unlinks = 1

\* something a request can fail on before the loop over the tasks
PreLoopFault ==
    \/ ~req.hasFile
    \/ ~req.mimeOk
    \/ ~req.hasToken
    \/ ~req.hasRepo
    \/ ~world.repoReachable

\* C17: a request with no file, a wrong file type, no credential, no owner
\* or repo, or an unreachable repository creates no issue and is answered
\* with a request-level failure: an error status, success false, and no
\* partial output. (Refuted: the repository is first contacted inside the
\* loop, and a run whose calls all fail is answered 201.)
C17_PreLoopFailure ==
    PreLoopFault =>
       /\ ResolvedCalls = {}
       /\ Responded => RequestFailure({400, 401, 500})

\* an unreachable repository: every create call was rejected and the
\* request was answered 201 with the failure records as its details
C17_Witness ==
    /\ Responded
    /\ ~world.repoReachable
    /\ req.hasFile /\ req.mimeOk /\ req.hasToken /\ req.hasRepo
    /\ Len(clientCalls) = 3
    /\ RejectedCalls = {1, 2, 3}
    /\ res.status = 201
    /\ res.success
    /\ Len(res.data.details) = 3

\* C18: a 201 success response is sent only when at least one issue was
\* created; a run in which the create call failed for every task is not
\* answered 201. (Refuted: lines 208-216 answer 201 whatever the records.)
C18_CreatedMeansCreated ==
    (Responded /\ res.status = 201) =>
       /\ ResolvedCalls # {}
       /\ Successes # {}

\* a reachable repository: the single create call was rejected, and the
\* answer is 201, success true, zero issues created
C18_Witness ==
    /\ Responded
    /\ world.repoReachable
    /\ Len(taskList) = 1
    /\ RejectedCalls = {1}
    /\ createdIssues[1].error = "Not Found"
    /\ res.status = 201
    /\ res.success
    /\ res.data.tasksExtracted = 1
    /\ res.data.issuesCreated = 0

-----------------------------------------------------------------------------
(* Termination of createGitHubIssues (checked under SpecHang) *)

\* a call was left unsettled: the loop is still waiting for it, it is the
\* last call made, and the records are those of the tasks before it
BlockedOnHung ==
    /\ fpc = "awaiting"
    /\ clientHung = {CurCall}
    /\ CurCall = taskIdx + 1
    /\ Len(createdIssues) = taskIdx

\* C19: there is no timeout or cancellation. If every create call resolves
\* or rejects, createGitHubIssues eventually returns; once the call for task
\* i is left unsettled, createGitHubIssues never returns and never makes a
\* create call for a task after i.
C19_NoTimeout ==
    /\ [](clientHung # {} => BlockedOnHung)
    /\ <>(fpc = "returned" \/ clientHung # {})

\* three tasks, the call for the second never settles: one record, two
\* calls, and the loop waiting
C19_Witness ==
    /\ Len(taskList) = 3
    /\ clientHung = {2}
    /\ Len(clientCalls) = 2
    /\ Len(createdIssues) = 1
    /\ fpc = "awaiting"

-----------------------------------------------------------------------------
(* Properties of GitHubService.createIssue (checked under SpecService) *)

RequestedLabels == Range(sargs.labels)
ResolvingLabels == RequestedLabels \cap github.labels
\* the label query was sent and answered with nodes
LabelsLookedUp ==
    /\ Len(sargs.labels) > 0
    /\ spc \notin {"start", "repoId", "labelIds"}
    /\ Answered(2)
    /\ gqlReplies[2].ok

-----------------------------------------------------------------------------
(* Properties of GitHubService.updateIssue (checked under SpecUpdate) *)

UpdateFields == {"title", "body", "state"}
Supplied(v) == v # Undefined
UpdateSent == Len(gqlSent) = 1
SentVariables == gqlSent[1].vars

\* C21: the variables of the updateIssue mutation hold issueId and, of
\* title, body and state, exactly the fields the caller supplied, with the
\* values supplied; closeIssue(id) sends exactly {issueId, state: CLOSED}
\* and reopenIssue(id) exactly {issueId, state: OPEN}. (Refuted: a field
\* supplied as the empty string is left out.)
C21_FieldsAsSupplied ==
    UpdateSent =>
       /\ SentVariables.issueId = sargs.issueId
       /\ sargs.entry = "updateIssue" =>
             \A f \in UpdateFields :
                /\ f \in DOMAIN SentVariables <=> Supplied(sargs[f])
                /\ f \in DOMAIN SentVariables => SentVariables[f] = sargs[f].val
       /\ sargs.entry = "closeIssue" =>
             SentVariables = [issueId |-> sargs.issueId, state |-> "CLOSED"]
       /\ sargs.entry = "reopenIssue" =>
             SentVariables = [issueId |-> sargs.issueId, state |-> "OPEN"]

\* the caller passed body '' to clear the body: the mutation went out
\* without a body and the stored body is the old one
C21_Witness ==
    /\ spc = "resolved"
    /\ sargs.entry = "updateIssue"
    /\ sargs.body = JsText("")
    /\ sargs.state = JsText("CLOSED")
    /\ DOMAIN SentVariables = {"issueId", "state"}
    /\ serverIssues[1].body = "Old body"
    /\ serverIssues[1].state = "CLOSED"

\* the createIssue mutations among the requests sent
MutationsSent == {i \in DOMAIN gqlSent : gqlSent[i].op = "CreateIssue"}
Succeeded(i) == Answered(i) /\ gqlReplies[i].ok
UnknownUsers == Range(sargs.assignees) \ github.users
Unresolvable == ~github.repoExists \/ UnknownUsers # {}

\* a continuation of createIssue or of a getUserId is ready to run
ContinuationReady ==
    \/ spc = "start"
    \/ spc = "repoId" /\ Answered(1)
    \/ spc = "labelIds" /\ Answered(2)
    \/ \E k \in DOMAIN userSlots : userSlots[k] = Unsettled /\ Answered(UserReq(k))
    \/ spc = "assigneeIds" /\ (allError # NoError0 \/ AllFulfilled)
    \/ spc = "mutation" /\ Answered(Len(gqlSent))
\* nothing is in flight and nothing is left to run
Quiescent == gqlPending = {} /\ ~ContinuationReady

\* C22: a createIssue mutation is sent only after the repository query
\* succeeded and, when labels or assignees were requested, after the label
\* query and every user query succeeded; it is the last request, sent once,
\* with the ids those lookups gave. When the repository or a requested user
\* does not exist, no mutation is ever sent, no issue is created, and the
\* call ends rejected with an error.
C22_MutationAfterLookups ==
    /\ \A i \in MutationsSent :
          /\ MutationsSent = {Len(gqlSent)}
          /\ Succeeded(1)
          /\ gqlSent[i].vars.repositoryId = gqlReplies[1].data.repository.id
          /\ Len(sargs.labels) > 0 => Succeeded(2)
          /\ \A k \in 1..Len(sargs.assignees) :
                /\ Succeeded(UserReq(k))
                /\ gqlSent[UserReq(k)].vars.login = sargs.assignees[k]
          /\ Len(gqlSent[i].vars.assigneeIds) = Len(sargs.assignees)
    /\ Unresolvable =>
          /\ MutationsSent = {}
          /\ serverIssues = <<>>
          /\ spc # "resolved"
          /\ Quiescent => (spc = "rejected" /\ ~sresult.ok)
    /\ Quiescent => spc \in {"resolved", "rejected"}

\* ann exists and bob does not: ann's lookup gave her id, the call was
\* rejected over bob, and no mutation was sent
C22_Witness ==
    /\ spc = "rejected"
    /\ github.repoExists
    /\ sargs.assignees = <<"ann", "bob">>
    /\ github.users = {"ann"}
    /\ userSlots = <<UserId("ann"), Rejected0>>
    /\ sresult.message =
         <<"Failed to create issue", "Failed to get user ID for", "bob",
           "Could not resolve to a User">>
    /\ MutationsSent = {}
    /\ Quiescent

-----------------------------------------------------------------------------
(* Cleanup of the uploaded file (checked under SpecUpload) *)

\* C23: whenever uploadFile has answered a request that carried an uploaded
\* file, deletion of the file was attempted before the response was sent.
\* (Refuted: the validation failures of lines 152-190 return without
\* fs.unlink; only the success path and the catch clause attempt it.)
C23_UnlinkBeforeResponse ==
    (Responded /\ req.hasFile) => unlinks >= 1

\* a readable document with tasks, uploaded without a credential: answered
\* 401 and the file never unlinked
C23_Witness ==
    /\ Responded
    /\ req.hasFile
    /\ req.mimeOk
    /\ Len(xresult) = 3
    /\ ~req.hasToken
    /\ res.status = 401
    /\ unlinks = 0

-----------------------------------------------------------------------------
(* Markers and filters (checked under SpecExtract) *)

\* the content of a line that has a list marker: a number and a period, or
\* a bullet, hyphen or asterisk, then whitespace, then the content; or a
\* hyphen directly followed by the content
MarkerContent(l) == Rule1Tasks(l) \cup Rule2Tasks(l) \cup Rule3Tasks(l)
Filtered(t) == Len(t) <= 3 \/ t[Len(t)] = ":"

\* C24: the length filter and the header filter apply only to lines without
\* a list marker. Every processed line with a marker has its content among
\* the tasks, and in the returned list, whatever the content's length or
\* last character; the lines that give a task are the marker lines and the
\* unmarked lines that pass both filters.
C24_MarkerLinesUnfiltered ==
    (xpc \in {"loop", "returned"} /\ text.type = "string") =>
       /\ \A i \in 1..lineIdx :
             \A t \in MarkerContent(lines[i]) :
                /\ t \in Elems(tasks)
                /\ Returned => t \in Elems(xresult)
       /\ Len(tasks) =
             Cardinality({ i \in 1..lineIdx :
                             \/ MarkerContent(lines[i]) # {}
                             \/ Rule4Tasks(lines[i]) # {} })

\* "1. a", "- Setup:" and "Foo:" give "a" and "Setup:": the marked contents
\* are kept though short or ending in a colon, the unmarked header is not
C24_Witness ==
    /\ Returned
    /\ text.str = Join(<<LnNumA, LnDashSetup, LnFooColon>>)
    /\ lines = <<LnNumA, LnDashSetup, LnFooColon>>
    /\ xresult = <<(<<"a">>), <<"S", "e", "t", "u", "p", ":">>>>
    /\ \A i \in 1..2 : Filtered(xresult[i])

UserQueriesSent == {i \in DOMAIN gqlSent : gqlSent[i].op = "GetUser"}
InputOrderIds == [k \in 1..Len(sargs.assignees) |-> UserId(sargs.assignees[k])]
SomeLookupFailed == \E k \in DOMAIN userSlots : userSlots[k] = Rejected0

\* C25: getAssigneeIds starts all user lookups together: the user queries
\* sent are always those of all the logins, one per login. Whatever the
\* order of their completion, the ids it returns, and the mutation carries,
\* are in the order of the input logins. If a lookup fails the call
\* rejects: createIssue sends no mutation, creates no issue, and ends
\* rejected.
C25_AssigneesInInputOrder ==
    /\ UserQueriesSent # {} =>
          /\ UserQueriesSent = {UserReq(k) : k \in 1..Len(sargs.assignees)}
          /\ \A k \in 1..Len(sargs.assignees) :
                gqlSent[UserReq(k)].vars.login = sargs.assignees[k]
    /\ \A i \in MutationsSent :
          /\ gqlSent[i].vars.assigneeIds = InputOrderIds
          /\ assigneeIds = InputOrderIds
          /\ Len(settleOrder) = Len(sargs.assignees)
    /\ spc = "resolved" => sresult.data.assignees = InputOrderIds
    /\ SomeLookupFailed =>
          /\ allError # NoError0
          /\ MutationsSent = {}
          /\ serverIssues = <<>>
          /\ spc \in {"assigneeIds", "rejected"}
          /\ Quiescent => (spc = "rejected" /\ ~sresult.ok)

\* bob and ann requested, ann's lookup completed first: the issue was
\* created with bob's id before ann's
C25_Witness ==
    /\ spc = "resolved"
    /\ sargs.assignees = <<"bob", "ann">>
    /\ settleOrder = <<2, 1>>
    /\ assigneeIds = <<UserId("bob"), UserId("ann")>>
    /\ serverIssues[1].assigneeIds = <<UserId("bob"), UserId("ann")>>
=============================================================================
